---- MODULE Spec2Model ----
(***************************************************************************)
(* Model of calculate_growth_rates (examples/basic_usage.py, lines 17-48): *)
(* year-over-year growth and margin ratios derived from a list of annual   *)
(* financial records.                                                      *)
(*                                                                         *)
(* Python values are represented as follows.                               *)
(*  - a metric is a record [ticker, year, revenue, net_income,             *)
(*    gross_profit, operating_income];                                     *)
(*  - the result of a true division is an exact fraction num/den in lowest *)
(*    terms with den > 0 (tag "float"); the rounding of binary floating    *)
(*    point is not represented;                                            *)
(*  - None is the value with tag "None"; a division whose denominator is   *)
(*    zero yields the value with tag "ZeroDivisionError", which aborts the *)
(*    call when it is evaluated;                                           *)
(*  - a returned container carries its kind ("list" or "dict").            *)
(***************************************************************************)
EXTENDS Integers, Sequences, FiniteSets, TLC

VARIABLES
    metrics,         \* the caller's list, passed as the argument
    input,           \* the contents of that list when the call was made
    pc,              \* "call", "loop" or "done"
    sorted_metrics,
    i,
    growth_rates,
    result,          \* the returned value
    raised,          \* the exception that ended the call, or "none"
    stdout           \* the lines printed

vars == <<metrics, input, pc, sorted_metrics, i, growth_rates, result, raised, stdout>>

(* ---------------------------- bounds ---------------------------------- *)

MaxLen == 3

Years == {2019, 2021, 2022, 2023}

Revenues == {0, 2, 3}

NetIncomes == {-1, 0}

(* every combination of year, revenue and net income for one ticker *)
AaplMetrics == [ticker : {"AAPL"}, year : Years, revenue : Revenues,
                net_income : NetIncomes, gross_profit : {4},
                operating_income : {5}]

(* records of a second ticker with other profit figures, so that what an *)
(* entry takes from the current record differs from the previous one's   *)
MsftMetrics == [ticker : {"MSFT"}, year : Years, revenue : {2},
                net_income : {-1}, gross_profit : {1},
                operating_income : {-3}]

Metric == AaplMetrics \cup MsftMetrics

Lengths == 0..MaxLen

(* ------------------------ numeric values ------------------------------ *)

None == [tag |-> "None", num |-> 0, den |-> 1]

ZeroDivisionError == [tag |-> "ZeroDivisionError", num |-> 0, den |-> 1]

Abs(x) == IF x < 0 THEN -x ELSE x

RECURSIVE GCD(_, _)
GCD(a, b) == IF b = 0 THEN a ELSE GCD(b, a % b)

Float(n, d) ==
    LET g == GCD(Abs(n), Abs(d))
        s == IF d < 0 THEN -1 ELSE 1
    IN  [tag |-> "float", num |-> s * (n \div g), den |-> s * (d \div g)]

(* a / b *)
Div(a, b) == IF b = 0 THEN ZeroDivisionError ELSE Float(a, b)

(* x * 100 *)
Times100(x) == IF x.tag = "float" THEN Float(x.num * 100, x.den) ELSE x

(* ------------------------- the function ------------------------------- *)

NeedTwoYears == "Need at least two years of data to calculate growth rates"

EmptyDict == [kind |-> "dict", items |-> <<>>]

List(s) == [kind |-> "list", items |-> s]

NoResult == [kind |-> "unset", items |-> <<>>]

(* if len(metrics) < 2 *)
TooShort(m) == Len(m) < 2

(* return {} *)
ShortResult == EmptyDict

(* key=lambda x: x.year *)
key(x) == x.year

(* sorted(...) is stable: x goes after every element whose key is <= its own *)
RECURSIVE InsertByKey(_, _)
InsertByKey(s, x) ==
    IF s = <<>> THEN <<x>>
    ELSE IF key(s[Len(s)]) <= key(x) THEN Append(s, x)
    ELSE Append(InsertByKey(SubSeq(s, 1, Len(s) - 1), x), s[Len(s)])

(* a variant that leaves the order as given *)
sorted_as_given(m) == m

RECURSIVE sorted(_)
sorted(m) ==
    IF m = <<>> THEN <<>>
    ELSE InsertByKey(sorted(SubSeq(m, 1, Len(m) - 1)), m[Len(m)])

(* a variant that sorts the caller's list in place, as metrics.sort() would *)
SortCall_in_place(m) == [caller |-> sorted(m), sorted_metrics |-> sorted(m)]

(* sorted_metrics = sorted(metrics, ...): a new list, the argument is kept *)
SortCall(m) == [caller |-> m, sorted_metrics |-> sorted(m)]

(* current = sorted_metrics[i]; previous = sorted_metrics[i-1]  (0-based) *)
CurrentOf(sm, k) == sm[k + 1]

PreviousOf(sm, k) == sm[k]

(* variants of the guard: testing the wrong field, and no guard at all *)
SkipPair_on_net_income(previous) == previous.net_income = 0

SkipPair_never(previous) == FALSE

(* if previous.revenue == 0: continue *)
SkipPair(previous) == previous.revenue = 0

(* a variant with the difference taken the wrong way round *)
revenue_growth_reversed(current, previous) ==
    Times100(Div(previous.revenue - current.revenue, previous.revenue))

revenue_growth(current, previous) ==
    Times100(Div(current.revenue - previous.revenue, previous.revenue))

(* a variant that reports 0 where the growth is undefined *)
net_income_growth_zero_placeholder(current, previous) ==
    IF previous.net_income # 0
    THEN Times100(Div(current.net_income - previous.net_income, previous.net_income))
    ELSE Float(0, 1)

net_income_growth(current, previous) ==
    IF previous.net_income # 0
    THEN Times100(Div(current.net_income - previous.net_income, previous.net_income))
    ELSE None

gross_margin(current) ==
    IF current.revenue # 0
    THEN Times100(Div(current.gross_profit, current.revenue))
    ELSE None

operating_margin(current) ==
    IF current.revenue # 0
    THEN Times100(Div(current.operating_income, current.revenue))
    ELSE None

(* a variant guarded by the numerator instead of the denominator *)
net_margin_guard_on_net_income(current) ==
    IF current.net_income # 0
    THEN Times100(Div(current.net_income, current.revenue))
    ELSE None

net_margin(current) ==
    IF current.revenue # 0
    THEN Times100(Div(current.net_income, current.revenue))
    ELSE None

(* a variant that labels the entry with the previous record *)
growth_labelled_previous(current, previous) ==
    [ticker            |-> previous.ticker,
     year              |-> previous.year,
     revenue_growth    |-> revenue_growth(current, previous),
     net_income_growth |-> net_income_growth(current, previous),
     gross_margin      |-> gross_margin(current),
     operating_margin  |-> operating_margin(current),
     net_margin        |-> net_margin(current)]

growth(current, previous) ==
    [ticker            |-> current.ticker,
     year              |-> current.year,
     revenue_growth    |-> revenue_growth(current, previous),
     net_income_growth |-> net_income_growth(current, previous),
     gross_margin      |-> gross_margin(current),
     operating_margin  |-> operating_margin(current),
     net_margin        |-> net_margin(current)]

Raises(g) ==
    \/ g.revenue_growth.tag = "ZeroDivisionError"
    \/ g.net_income_growth.tag = "ZeroDivisionError"
    \/ g.gross_margin.tag = "ZeroDivisionError"
    \/ g.operating_margin.tag = "ZeroDivisionError"
    \/ g.net_margin.tag = "ZeroDivisionError"

(* for i in range(1, len(sorted_metrics)) *)
InRange(sm, k) == k < Len(sm)

(* the whole call as a function of its argument *)
RECURSIVE LoopFrom(_, _, _)
LoopFrom(sm, k, gr) ==
    IF ~InRange(sm, k) THEN [ret |-> List(gr), exc |-> "none"]
    ELSE IF SkipPair(PreviousOf(sm, k)) THEN LoopFrom(sm, k + 1, gr)
    ELSE LET g == growth(CurrentOf(sm, k), PreviousOf(sm, k))
         IN  IF Raises(g) THEN [ret |-> NoResult, exc |-> "ZeroDivisionError"]
             ELSE LoopFrom(sm, k + 1, Append(gr, g))

calculate_growth_rates(m) ==
    IF TooShort(m) THEN [ret |-> ShortResult, exc |-> "none"]
    ELSE LoopFrom(SortCall(m).sorted_metrics, 1, <<>>)

(* --------------------------- the machine ------------------------------ *)

Init ==
    /\ \E n \in Lengths : metrics \in [1..n -> Metric]
    /\ input = metrics
    /\ pc = "call"
    /\ sorted_metrics = <<>>
    /\ i = 0
    /\ growth_rates = <<>>
    /\ result = NoResult
    /\ raised = "none"
    /\ stdout = <<>>

(* lines 19-21 *)
ReturnShort ==
    /\ pc = "call"
    /\ TooShort(metrics)
    /\ stdout' = Append(stdout, NeedTwoYears)
    /\ result' = ShortResult
    /\ pc' = "done"
    /\ UNCHANGED <<metrics, input, sorted_metrics, i, growth_rates, raised>>

(* lines 23-28 *)
Sort ==
    /\ pc = "call"
    /\ ~TooShort(metrics)
    /\ growth_rates' = <<>>
    /\ metrics' = SortCall(metrics).caller
    /\ sorted_metrics' = SortCall(metrics).sorted_metrics
    /\ i' = 1
    /\ pc' = "loop"
    /\ UNCHANGED <<input, result, raised, stdout>>

(* lines 28-34 *)
Continue ==
    /\ pc = "loop"
    /\ InRange(sorted_metrics, i)
    /\ SkipPair(PreviousOf(sorted_metrics, i))
    /\ i' = i + 1
    /\ UNCHANGED <<metrics, input, pc, sorted_metrics, growth_rates, result, raised, stdout>>

(* lines 28-46 *)
AppendGrowth ==
    /\ pc = "loop"
    /\ InRange(sorted_metrics, i)
    /\ ~SkipPair(PreviousOf(sorted_metrics, i))
    /\ LET g == growth(CurrentOf(sorted_metrics, i), PreviousOf(sorted_metrics, i))
       IN  IF Raises(g)
           THEN /\ raised' = "ZeroDivisionError"
                /\ pc' = "done"
                /\ UNCHANGED <<i, growth_rates>>
           ELSE /\ growth_rates' = Append(growth_rates, g)
                /\ i' = i + 1
                /\ UNCHANGED <<pc, raised>>
    /\ UNCHANGED <<metrics, input, sorted_metrics, result, stdout>>

(* line 48 *)
Return ==
    /\ pc = "loop"
    /\ ~InRange(sorted_metrics, i)
    /\ result' = List(growth_rates)
    /\ pc' = "done"
    /\ UNCHANGED <<metrics, input, sorted_metrics, i, growth_rates, raised, stdout>>

Next ==
    \/ ReturnShort
    \/ Sort
    \/ Continue
    \/ AppendGrowth
    \/ Return

Spec == Init /\ [][Next]_vars

(* ----------------------- vocabulary of the properties ----------------- *)

Done == pc = "done"

Range(s) == {s[k] : k \in DOMAIN s}

DistinctYears(m) == \A a, b \in DOMAIN m : a # b => m[a].year # m[b].year

(* the entries of the returned container *)
Entries == result.items

HasPrev(r) == \E p \in Range(input) : p.year < r.year

(* the record with the greatest year below r.year in the input *)
Prev(r) ==
    CHOOSE p \in Range(input) :
        /\ p.year < r.year
        /\ \A q \in Range(input) : q.year < r.year => q.year <= p.year

(* the input record an entry was built for (years distinct) *)
Cur(e) == CHOOSE r \in Range(input) : r.year = e.year

HasEntry(y) == \E k \in DOMAIN Entries : Entries[k].year = y

EntryOf(y) == Entries[CHOOSE k \in DOMAIN Entries : Entries[k].year = y]

(* the value x is the exact quotient n / d times 100 *)
IsPercent(x, n, d) == x.tag = "float" /\ x.num * d = n * 100 * x.den

(* a completed call on at least two records with pairwise distinct years *)
DoneDistinct == Done /\ Len(input) >= 2 /\ DistinctYears(input)

(* ------------------------------ claims -------------------------------- *)

(* C1: on an input of fewer than two records the call returns an empty     *)
(* sequence, a value of the same kind (a list) as the one returned for     *)
(* longer inputs, with no entries.                                         *)
C1_ShortInputReturnsEmptyList ==
    (Done /\ Len(input) < 2) => result = List(<<>>)

(* C2: for every adjacent pair of the year-sorted records, the pair yields *)
(* no entry when the previous revenue is zero, whatever the other fields,  *)
(* and the skip touches only that pair: a pair whose previous revenue is   *)
(* nonzero yields its entry.                                               *)
C2_ZeroPreviousRevenueSkipsOnlyThatPair ==
    /\ DoneDistinct =>
          \A r \in Range(input) :
              HasPrev(r) => (Prev(r).revenue = 0 <=> ~HasEntry(r.year))
    /\ (Done /\ Len(input) >= 2) =>
          Len(Entries) = Cardinality({k \in 1..(Len(sorted_metrics) - 1) :
                                         sorted_metrics[k].revenue # 0})

C2_Witness ==
    /\ DoneDistinct
    /\ Len(input) = 3
    /\ Len(Entries) = 1
    /\ \E r \in Range(input) :
          /\ HasPrev(r) /\ Prev(r).revenue = 0 /\ Prev(r).net_income # 0
          /\ r.revenue # 0 /\ r.net_income # 0
          /\ ~HasEntry(r.year)

(* C3: every emitted entry carries a revenue_growth, never absent, equal   *)
(* to (current.revenue - previous.revenue) / previous.revenue * 100, where *)
(* previous is the record with the greatest year below the entry's year.   *)
C3_RevenueGrowthFormula ==
    DoneDistinct =>
        \A k \in DOMAIN Entries :
            LET e == Entries[k]
            IN  /\ \E r \in Range(input) : r.year = e.year /\ HasPrev(r)
                /\ Prev(Cur(e)).revenue # 0
                /\ IsPercent(e.revenue_growth,
                             Cur(e).revenue - Prev(Cur(e)).revenue,
                             Prev(Cur(e)).revenue)

C3_Witness ==
    /\ DoneDistinct
    /\ \E k \in DOMAIN Entries :
          /\ Prev(Cur(Entries[k])).revenue = 2
          /\ Cur(Entries[k]).revenue = 3
          /\ Entries[k].revenue_growth = [tag |-> "float", num |-> 50, den |-> 1]
    /\ \E k \in DOMAIN Entries :
          /\ Prev(Cur(Entries[k])).revenue = 3
          /\ Cur(Entries[k]).revenue = 2
          /\ Entries[k].revenue_growth = [tag |-> "float", num |-> -100, den |-> 3]

(* C4: for every adjacent pair whose previous revenue is nonzero the entry *)
(* is emitted; its net_income_growth is None exactly when the previous net *)
(* income is zero, and otherwise equals                                    *)
(* (current.net_income - previous.net_income) / previous.net_income * 100. *)
C4_NetIncomeGrowthAbsentIffZeroPrevious ==
    DoneDistinct =>
        \A r \in Range(input) :
            (HasPrev(r) /\ Prev(r).revenue # 0) =>
                /\ HasEntry(r.year)
                /\ LET g == EntryOf(r.year).net_income_growth
                   IN  /\ g = None <=> Prev(r).net_income = 0
                       /\ Prev(r).net_income # 0 =>
                              IsPercent(g, r.net_income - Prev(r).net_income,
                                        Prev(r).net_income)

C4_Witness ==
    /\ DoneDistinct
    /\ \E r \in Range(input) :
          /\ HasPrev(r) /\ Prev(r).revenue # 0 /\ Prev(r).net_income = 0
          /\ r.net_income # 0
          /\ HasEntry(r.year)
          /\ EntryOf(r.year).net_income_growth = None
    /\ \E r \in Range(input) :
          /\ HasPrev(r) /\ Prev(r).revenue # 0 /\ Prev(r).net_income # 0
          /\ HasEntry(r.year)
          /\ EntryOf(r.year).net_income_growth = [tag |-> "float", num |-> 0, den |-> 1]

(* C5: on every emitted entry the three margins are all None exactly when  *)
(* the current revenue is zero, and otherwise are gross_profit,            *)
(* operating_income and net_income of the current record over the current  *)
(* revenue times 100; with a zero current revenue the entry is still       *)
(* emitted, revenue_growth is -100 and net_income_growth keeps its rule.   *)
C5_MarginsAbsentIffZeroCurrentRevenue ==
    DoneDistinct =>
        /\ \A k \in DOMAIN Entries :
              LET e == Entries[k]
                  c == Cur(e)
              IN  IF c.revenue = 0
                  THEN /\ e.gross_margin = None
                       /\ e.operating_margin = None
                       /\ e.net_margin = None
                       /\ e.revenue_growth = [tag |-> "float", num |-> -100, den |-> 1]
                       /\ IF Prev(c).net_income = 0
                          THEN e.net_income_growth = None
                          ELSE IsPercent(e.net_income_growth,
                                         c.net_income - Prev(c).net_income,
                                         Prev(c).net_income)
                  ELSE /\ IsPercent(e.gross_margin, c.gross_profit, c.revenue)
                       /\ IsPercent(e.operating_margin, c.operating_income, c.revenue)
                       /\ IsPercent(e.net_margin, c.net_income, c.revenue)
        /\ \A r \in Range(input) :
              (HasPrev(r) /\ Prev(r).revenue # 0 /\ r.revenue = 0) => HasEntry(r.year)

C5_Witness ==
    /\ DoneDistinct
    /\ \E k \in DOMAIN Entries :
          /\ Cur(Entries[k]).revenue = 0
          /\ Cur(Entries[k]).net_income # 0
          /\ Prev(Cur(Entries[k])).net_income # 0
          /\ Entries[k].net_margin = None
          /\ Entries[k].net_income_growth.tag = "float"
    /\ \E k \in DOMAIN Entries :
          /\ Cur(Entries[k]).revenue = 3
          /\ Entries[k].gross_margin = [tag |-> "float", num |-> 400, den |-> 3]

(* C6: for an input with pairwise distinct years, the years of the         *)
(* returned entries increase strictly from first to last, and every        *)
(* permutation of the input returns the same sequence.                     *)
C6_AscendingAndOrderIndependent ==
    (Done /\ DistinctYears(input)) =>
        /\ \A a, b \in DOMAIN Entries : a < b => Entries[a].year < Entries[b].year
        /\ \A p \in Permutations(DOMAIN input) :
              calculate_growth_rates([k \in DOMAIN input |-> input[p[k]]]).ret = result

C6_Witness ==
    /\ DoneDistinct
    /\ Len(input) = 3
    /\ input[1].year > input[2].year
    /\ input[2].year > input[3].year
    /\ Len(Entries) = 2

C8_NeverRaises ==
    /\ raised = "none"
    /\ Done => result.kind # "unset"

C8_Witness ==
    /\ Done
    /\ raised = "none"
    /\ \E a, b \in DOMAIN sorted_metrics :
          /\ b = a + 1
          /\ sorted_metrics[a].revenue = 0
          /\ sorted_metrics[b].net_income # 0
    /\ \E k \in DOMAIN Entries :
          /\ Entries[k].net_income_growth = None
          /\ Entries[k].net_margin = None

(* C9: when two input records share a year the call surfaces a validation  *)
(* failure: it does not return entries computed from the equal-year pair.  *)
C9_DuplicateYearRejected ==
    (Done /\ ~DistinctYears(input)) => raised # "none"

(* C10: for n >= 2 records with distinct years there is exactly one entry  *)
(* for each record whose predecessor in year order has nonzero revenue and *)
(* no other entry; it carries the year and ticker of that (current)        *)
(* record; there are at most n-1 entries, none for the earliest year; a    *)
(* gap in the years does not prevent the entry.                            *)
C10_OneEntryPerKeptPair ==
    DoneDistinct =>
        /\ Len(Entries) <= Len(input) - 1
        /\ LET first == CHOOSE r \in Range(input) :
                            \A q \in Range(input) : r.year <= q.year
           IN  \A k \in DOMAIN Entries : Entries[k].year # first.year
        /\ \A k \in DOMAIN Entries :
              /\ \E r \in Range(input) : r.year = Entries[k].year /\ HasPrev(r)
              /\ Prev(Cur(Entries[k])).revenue # 0
              /\ Entries[k].ticker = Cur(Entries[k]).ticker
        /\ \A r \in Range(input) :
              (HasPrev(r) /\ Prev(r).revenue # 0) =>
                  Cardinality({k \in DOMAIN Entries : Entries[k].year = r.year}) = 1

C10_Witness ==
    /\ DoneDistinct
    /\ {input[k].year : k \in DOMAIN input} = {2019, 2022}
    /\ Len(Entries) = 1
    /\ Entries[1].year = 2022
    /\ Entries[1].ticker = "MSFT"
    /\ Prev(Cur(Entries[1])).ticker = "AAPL"

====
